---- MODULE Spec2Model ----
(***************************************************************************)
(* BLOBPROC: the ingress service (WebSpoolService, src/service.go), the    *)
(* cross-device move (MoveFile), the object client (WrapS3.PutBlob,        *)
(* src/blob.go), the derivation client (pdfextract.ProcessFile) and the    *)
(* spool walker (WalkFast, runSequentialProcessor).                        *)
(*                                                                         *)
(* Strings are sequences: a hex digest is a sequence of digits 0..15, a    *)
(* file body a sequence of bytes, a spool path the sequence of its three   *)
(* segments below the spool root.                                          *)
(***************************************************************************)
EXTENDS Integers, Sequences, FiniteSets, TLC

VARIABLES
    svc,        \* WebSpoolService: MaxFileSize, MinFreeDiskPercent, URLMap
    dirs,       \* directories below the spool root (leaf directories <<s0, s1>>)
    spool,      \* regular files below the spool root: path -> content
    tmpfs,      \* files in the OS temp directory (outside the spool): name -> content
    req,        \* per upload request: position in BlobHandler and what it received
    resp,       \* per upload request: the HTTP response written
    api,        \* the last call of a read-only handler or function, with its answer
    cfg,        \* walker configuration: mode, NumWorkers, KeepSpool, GrobidMaxFileSize, S3, Grobid
    run,        \* position of Run / runSequentialProcessor, its error, and the
                \* files WalkFast has met, handed to a worker and started on
    todo,       \* filepath.Walk: paths still to visit, in visiting order
    offer,      \* the Payload the producer is sending on the unbuffered queue
    wk,         \* per executor: position in the per-file pipeline and its locals
    stats,      \* WalkStats (Processed, OK) and the sequential counters
    cancelled,  \* the outer context of Run is done
    buckets,    \* object store: existing buckets
    objects     \* object store: <<bucket, key>> -> [blob, ctype]

ingressVars == <<svc, dirs, tmpfs, req, resp, api>>
walkerVars  == <<cfg, run, todo, offer, wk, stats, cancelled, buckets, objects>>
vars        == <<svc, dirs, spool, tmpfs, req, resp, api,
                 cfg, run, todo, offer, wk, stats, cancelled, buckets, objects>>

----------------------------------------------------------------------------
(* Bounds of the model.                                                    *)

MaxBodyLen  == 2      \* longest request body
MaxRequests == 2      \* upload requests, handled concurrently
MaxWorkers  == 2      \* largest configured worker count
MaxFiles    == 2      \* most files in the spool when a walk starts on its own

(* Program constants.                                                      *)

ExpectedSHA1Length        == 40
defaultMinFreeDiskPercent == 10
defaultRetryAfterSeconds  == 60
ThumbMinLen               == 50

----------------------------------------------------------------------------
(* Bytes, bodies, digests.                                                 *)

Min(a, b) == IF a < b THEN a ELSE b

Byte == 0..1

\* The byte sequences of length at most n.
SeqsUpTo(S, n) == UNION {[1..k -> S] : k \in 0..n}

Bodies == SeqsUpTo(Byte, MaxBodyLen)

\* A body that starts with the PDF magic number is detected as a PDF.
PdfMagic == <<1>>

Mimetype(p) ==
    IF Len(p) >= Len(PdfMagic) /\ SubSeq(p, 1, Len(PdfMagic)) = PdfMagic
    THEN "application/pdf"
    ELSE "text/plain"

\* An injective numbering of byte strings (bijective base 4), the stand-in
\* for the collision freedom of SHA-1.
RECURSIVE Code(_)
Code(p) == IF p = <<>> THEN 0 ELSE (p[1] + 1) + 4 * Code(Tail(p))

\* sha1.Sum rendered with %x: ExpectedSHA1Length hex digits.  Digits 5..8
\* carry the numbering, so different contents have different digests; the
\* first four digits (the two shard levels) take few values, so several
\* files share a directory.
Sha1Hex(p) ==
    LET c == Code(p) IN
    [i \in 1..ExpectedSHA1Length |->
        CASE i = 1 -> 0
          [] i = 2 -> c % 2
          [] i = 3 -> 0
          [] i = 4 -> 0
          [] i = 5 -> (c \div 4096) % 16
          [] i = 6 -> (c \div 256) % 16
          [] i = 7 -> (c \div 16) % 16
          [] i = 8 -> c % 16
          [] OTHER -> (7 * c + i) % 16]

----------------------------------------------------------------------------
(* The sharded store: src/service.go 81-122.                               *)

errShortName == "short name"
NoErr        == "nil"

\* Characters of a name besides the hex digits 0..15: one that is no hex
\* digit, the dot and the slash.
NonHexChar == 16
DotChar    == 17
SlashChar  == 18

\* The segments of a string between its slashes.
RECURSIVE SplitSlash(_, _)
SplitSlash(s, cur) ==
    IF s = <<>> THEN <<cur>>
    ELSE IF Head(s) = SlashChar THEN <<cur>> \o SplitSlash(Tail(s), <<>>)
    ELSE SplitSlash(Tail(s), Append(cur, Head(s)))

\* path.Clean on segments below the root: empty and "." segments are
\* dropped, ".." takes the segment before it away (and stays where there
\* is none below the root).
RECURSIVE CleanSegments(_, _)
CleanSegments(segs, out) ==
    IF segs = <<>> THEN out
    ELSE LET h == Head(segs) IN
         IF h = <<>> \/ h = <<DotChar>> THEN CleanSegments(Tail(segs), out)
         ELSE IF h = <<DotChar, DotChar>> /\ out # <<>> /\ out[Len(out)] # h
         THEN CleanSegments(Tail(segs), SubSeq(out, 1, Len(out) - 1))
         ELSE CleanSegments(Tail(segs), Append(out, h))

\* path.Join(svc.Dir, elems...): the cleaned path, as segments below svc.Dir.
RECURSIVE JoinSegments(_)
JoinSegments(elems) ==
    IF elems = <<>> THEN <<>>
    ELSE SplitSlash(Head(elems), <<>>) \o JoinSegments(Tail(elems))
pathJoin(elems) == CleanSegments(JoinSegments(elems), <<>>)

\* Whether directory d exists, given the leaf directories ds below the root.
DirExists(d, ds) == d = <<>> \/ \E x \in ds : Len(x) >= Len(d) /\ SubSeq(x, 1, Len(d)) = d

\* shardedPath with its create flag: the path below svc.Dir, the error and
\* the directories afterwards; mkdir is what MkdirAll does when called.
shardedPathCreate(filename, create, ds, mkdir) ==
    IF Len(filename) < 8
    THEN [path |-> <<>>, err |-> errShortName, dirs |-> ds]
    ELSE LET dstDir == pathJoin(<<SubSeq(filename, 1, 2), SubSeq(filename, 3, 4)>>)
         IN  IF create /\ ~DirExists(dstDir, ds) /\ mkdir = "err"
             THEN [path |-> <<>>, err |-> "mkdir", dirs |-> ds]
             ELSE [path |-> CleanSegments(
                               dstDir \o SplitSlash(SubSeq(filename, 5, Len(filename)), <<>>),
                               <<>>),
                   err  |-> NoErr,
                   dirs |-> IF create /\ ~DirExists(dstDir, ds) THEN ds \cup {dstDir} ELSE ds]

\* shardedPath: the path below svc.Dir and the error.
shardedPath(filename) ==
    LET sp == shardedPathCreate(filename, FALSE, {}, "ok")
    IN  [path |-> sp.path, err |-> sp.err]

\* The directory of a file path.
DirOf(path) == SubSeq(path, 1, 2)

\* What os.Stat does: it answers, or fails for a reason other than the
\* file's absence.
StatOk       == "ok"
StatOutcomes == {StatOk, "EACCES"}

\* shardedPathExists: os.Stat on the sharded path; any Stat error reads as absent.
shardedPathExistsStat(filename, stat) ==
    LET sp == shardedPath(filename) IN
    IF sp.err # NoErr
    THEN [ok |-> FALSE, err |-> sp.err]
    ELSE [ok |-> (stat = StatOk /\ sp.path \in DOMAIN spool), err |-> NoErr]

\* The same with a Stat that answers.
shardedPathExists(filename) == shardedPathExistsStat(filename, StatOk)

shardedPathToIdentifier(path) ==
    IF Len(path) < 3 THEN <<>>
    ELSE path[Len(path) - 2] \o path[Len(path) - 1] \o path[Len(path)]

\* SpoolStatusHandler: the status code of GET /spool/{id}.
SpoolStatusHandlerStat(digest, stat) ==
    IF Len(digest) # ExpectedSHA1Length THEN 400
    ELSE LET e == shardedPathExistsStat(digest, stat) IN
         IF e.err # NoErr THEN 500
         ELSE IF e.ok THEN 200 ELSE 404

\* The same with a Stat that answers.
SpoolStatusHandler(digest) == SpoolStatusHandlerStat(digest, StatOk)

\* No call made yet.
NoCall == [call |-> "none"]

\* The ids asked for on the status route: the digests of the bodies, and ids
\* that are too short, too long, empty, or of the right length with a
\* character that is no hex digit.
StatusIds ==
    {Sha1Hex(b) : b \in Bodies}
    \cup {<<>>, SubSeq(Sha1Hex(<<>>), 1, ExpectedSHA1Length - 1),
          Sha1Hex(<<>>) \o <<0>>,
          [i \in 1..ExpectedSHA1Length |-> IF i = ExpectedSHA1Length THEN NonHexChar ELSE 0],
          [i \in 1..ExpectedSHA1Length |-> IF i = 1 THEN NonHexChar ELSE 0]}

\* The names shardedPath is called with: the ids above, names of 7 and 8
\* characters, and names with a dot, a slash or ".." in a shard.
PathNames ==
    StatusIds
    \cup {SubSeq(Sha1Hex(<<>>), 1, 7), SubSeq(Sha1Hex(<<>>), 1, 8),
          Sha1Hex(<<>>) \o <<DotChar, 1, 2>>,
          <<0, 0, DotChar, DotChar, 0, 0, 0, 0>>,
          <<0, SlashChar, 0, 0, 0, 0, 0, 0>>}

\* GET /spool/{id}.
SpoolStatusGet(ids) ==
    /\ \E id \in ids, stat \in StatOutcomes :
          api' = [call |-> "status", id |-> id, stat |-> stat,
                  status |-> SpoolStatusHandlerStat(id, stat)]
    /\ UNCHANGED <<svc, dirs, spool, tmpfs, req, resp>>
    /\ UNCHANGED walkerVars

\* A call of shardedPath: the name, the flag, the result, and the
\* directories as they were before.
ShardedPathCall(names) ==
    /\ \E name \in names, create \in BOOLEAN, mkdir \in {"ok", "err"} :
          LET sp == shardedPathCreate(name, create, dirs, mkdir)
          IN  /\ api' = [call |-> "shardedPath", name |-> name, create |-> create,
                         path |-> sp.path, err |-> sp.err, was |-> dirs]
              /\ dirs' = sp.dirs
    /\ UNCHANGED <<svc, spool, tmpfs, req, resp>>
    /\ UNCHANGED walkerVars

----------------------------------------------------------------------------
(* Admission: src/service.go 124-137, 204-225.                             *)

\* disk.Usage of the filesystem holding the spool: free and total blocks.
DiskTotal  == 20
DiskUsages == {[Free |-> f, Total |-> DiskTotal] : f \in {0, 1, 2}}

\* An admission check that wants strictly more free space than the threshold.
hasMoreThanMinFree(minFree, usage) ==
    (usage.Free * 100) \div usage.Total >
        (IF minFree <= 0 THEN defaultMinFreeDiskPercent ELSE minFree)

hasSufficientDiskSpace(minFree, usage) ==
    LET minPercent  == IF minFree <= 0 THEN defaultMinFreeDiskPercent ELSE minFree
        freePercent == (usage.Free * 100) \div usage.Total
    IN  freePercent >= minPercent

\* r.ContentLength: -1 when the producer sent none.
NoContentLength == -1
ContentLengths  == NoContentLength..(MaxBodyLen + 1)

----------------------------------------------------------------------------
(* Draining the body: LimitedReader.Read and io.Copy, src/service.go       *)
(* 41-53, 240-263.                                                         *)

\* The size of io.Copy's buffer, in bytes of the model.
CopyBufLen == 1

errSizeExceeded == "file size exceeds maximum allowed size"

\* io.Copy(mw, reader) from position pos of the body: the number of bytes
\* written and the error.  max = 0: the body is read directly; max > 0: through
\* a LimitedReader that has passed on pos bytes.  eofWithData: the body
\* reader returns io.EOF together with its last bytes (it may also return it
\* on the following Read).
RECURSIVE ioCopy(_, _, _, _)
ioCopy(body, pos, max, eofWithData) ==
    IF max > 0 /\ pos >= max
    THEN [n |-> pos, err |-> errSizeExceeded]
    ELSE LET want == IF max > 0 THEN Min(CopyBufLen, max - pos) ELSE CopyBufLen
             got  == Min(want, Len(body) - pos)
         IN  IF got = 0
             THEN [n |-> pos, err |-> NoErr]
             ELSE IF pos + got = Len(body) /\ eofWithData
                  THEN [n |-> pos + got, err |-> NoErr]
                  ELSE ioCopy(body, pos + got, max, eofWithData)

----------------------------------------------------------------------------
(* Responses: src/service.go 274-278, 305-309, 338-339.                    *)

ListenAddr == "localhost:8000"

spoolPath(digest) == <<"/spool/", digest>>
spoolURL(digest)  == <<"http://", ListenAddr>> \o spoolPath(digest)

NoLocation == <<>>
NoResponse == [status |-> 0, location |-> NoLocation, retryAfter |-> 0]

Response(status, location) ==
    [status |-> status, location |-> location, retryAfter |-> 0]

\* The Location of the reply to an upload whose file was already spooled.
DuplicateLocation(digest) == spoolPath(digest)

\* The Location of the reply to an upload that was moved into the spool.
SpooledLocation(digest) == spoolURL(digest)

----------------------------------------------------------------------------
(* Upload requests.                                                        *)

Requests == 1..MaxRequests

\* The name MoveFile's os.CreateTemp gives its file in the destination
\* directory, ".tmp-move-" and a unique suffix: the "." is no hex digit and
\* sorts before every one of them.
TmpMoveMark == -1

\* A temp name that every call of MoveFile uses.
TmpMoveNameShared(r) == <<TmpMoveMark, 0>>

TmpMoveName(r) == <<TmpMoveMark, r>>

\* The URL headers of a request, "" for a header that is not sent.
NoHeaders == [BlobprocURL |-> "", HeritrixCURI |-> ""]
Headers   == [BlobprocURL : {"", "http://a"}, HeritrixCURI : {"", "http://b"}]

NoInput == [cl |-> NoContentLength, usage |-> [Free |-> 0, Total |-> DiskTotal],
            body |-> <<>>, hdr |-> NoHeaders]

\* svc.URLMap: whether the service has one (the pointer is not nil), and
\* the rows of its table in the order of their insertion, each with the
\* request whose handler inserted it.
NoURLMap   == [set |-> FALSE, rows |-> <<>>]
SomeURLMap == [set |-> TRUE, rows |-> <<>>]

\* What the database does with an insert.
InsertOk       == "ok"
InsertOutcomes == {InsertOk, "err"}

\* URLMap.Insert: the table after it; a failed insert leaves it as it is.
URLMapInsert(u, url, sha1, r, outcome) ==
    IF outcome = InsertOk
    THEN [u EXCEPT !.rows = Append(@, [url |-> url, sha1 |-> sha1, by |-> r])]
    ELSE u

\* The URL BlobHandler records: X-BLOBPROC-URL, or X-Heritrix-CURI when
\* that is empty.
Curi(hdr) == IF hdr.BlobprocURL = "" THEN hdr.HeritrixCURI ELSE hdr.BlobprocURL

\* A request: its position in the handler, what it received, the bytes
\* MoveFile has copied, the requests answered before it arrived, and the
\* spool paths its MoveFile has renamed a file onto.
IdleRequest == [pc |-> "idle", in |-> NoInput, digest |-> <<>>, mvN |-> 0,
                mvErr |-> NoErr, after |-> {}, made |-> {}]

Remove(f, k) == [x \in DOMAIN f \ {k} |-> f[x]]
Put(f, k, v) == [x \in DOMAIN f \cup {k} |-> IF x = k THEN v ELSE f[x]]

\* The digest of the bytes that the drain wrote to the temp file and to the
\* running hash.
Digest(r) == req[r].digest
Dst(r)    == shardedPath(Digest(r)).path

\* A move that writes the copy straight to the destination path.
WritesInPlace(r) == Dst(r)

\* The path MoveFile writes its copy to: a temp name beside the destination.
MvTmp(r) == DirOf(Dst(r)) \o <<TmpMoveName(r)>>

\* Where a call of MoveFile can fail in the filesystem.
MoveFaults == {"open", "createtemp", "copy", "close", "chmod", "rename", "remove"}
NoFault    == "none"

\* MoveFile returns to BlobHandler with err.
MoveReturns(r, err) == req' = [req EXCEPT ![r].pc = "moved", ![r].mvErr = err]

Reply(r, status, location) ==
    /\ resp' = [resp EXCEPT ![r] = Response(status, location)]
    /\ req'  = [req EXCEPT ![r].pc = "done"]

\* BlobHandler 204-234: disk admission, the size cap on the declared length,
\* and the temp file outside the spool.  Requests are numbered in the order
\* in which they arrive; usages and lengths are what the disk and the
\* producers can present, headers the URL headers they send.
BlobHandlerAdmit(r, usages, lengths, headers) ==
    /\ req[r].pc = "idle"
    /\ \A q \in Requests : q < r => req[q].pc # "idle"
    /\ \E usage \in usages, cl \in lengths, hdr \in headers :
        LET in == [NoInput EXCEPT !.cl = cl, !.usage = usage, !.hdr = hdr]
            me == [IdleRequest EXCEPT !.in = in,
                      !.after = {q \in Requests : req[q].pc = "done"}]
        IN
        IF ~hasSufficientDiskSpace(svc.MinFreeDiskPercent, usage)
        THEN /\ resp' = [resp EXCEPT ![r] =
                    [status |-> 429, location |-> NoLocation,
                     retryAfter |-> defaultRetryAfterSeconds]]
             /\ req' = [req EXCEPT ![r] = [me EXCEPT !.pc = "done"]]
             /\ UNCHANGED tmpfs
        ELSE IF svc.MaxFileSize > 0 /\ cl > svc.MaxFileSize
        THEN /\ resp' = [resp EXCEPT ![r] = Response(413, NoLocation)]
             /\ req' = [req EXCEPT ![r] = [me EXCEPT !.pc = "done"]]
             /\ UNCHANGED tmpfs
        ELSE /\ tmpfs' = Put(tmpfs, r, <<>>)
             /\ req' = [req EXCEPT ![r] = [me EXCEPT !.pc = "read"]]
             /\ UNCHANGED resp
    /\ UNCHANGED <<svc, dirs, spool>>
    /\ UNCHANGED <<api, walkerVars>>

\* BlobHandler 235-273: drain the body into the temp file and the hash, then
\* compare the bytes written with the declared length.  Every return removes
\* the temp file (the deferred os.Remove).
BlobHandlerRead(r, bodies) ==
    /\ req[r].pc = "read"
    /\ \E body \in bodies, eofWithData \in BOOLEAN :
        LET c  == ioCopy(body, 0, svc.MaxFileSize, eofWithData)
            in == [req[r].in EXCEPT !.body = body]
        IN  IF c.err # NoErr
            THEN /\ resp' = [resp EXCEPT ![r] = Response(413, NoLocation)]
                 /\ req' = [req EXCEPT ![r] = [req[r] EXCEPT !.pc = "done", !.in = in]]
                 /\ tmpfs' = Remove(tmpfs, r)
            ELSE IF c.n # req[r].in.cl
            THEN /\ resp' = [resp EXCEPT ![r] = Response(500, NoLocation)]
                 /\ req' = [req EXCEPT ![r] = [req[r] EXCEPT !.pc = "done", !.in = in]]
                 /\ tmpfs' = Remove(tmpfs, r)
            ELSE /\ tmpfs' = Put(tmpfs, r, SubSeq(body, 1, c.n))
                 /\ req' = [req EXCEPT ![r] = [req[r] EXCEPT !.pc = "stat", !.in = in,
                                           !.digest = Sha1Hex(SubSeq(body, 1, c.n))]]
                 /\ UNCHANGED resp
    /\ UNCHANGED <<svc, dirs, spool>>
    /\ UNCHANGED <<api, walkerVars>>

\* BlobHandler 274-291: the digest, the sharded path with its directories
\* created, and the existence check.
BlobHandlerStat(r) ==
    /\ req[r].pc = "stat"
    /\ LET sp == shardedPath(Digest(r))
           ex == shardedPathExists(Digest(r))
       IN  IF sp.err # NoErr \/ ex.err # NoErr
           THEN /\ Reply(r, 500, NoLocation)
                /\ tmpfs' = Remove(tmpfs, r)
                /\ UNCHANGED dirs
           ELSE /\ dirs' = dirs \cup {DirOf(sp.path)}
                /\ req' = [req EXCEPT ![r].pc = IF ex.ok THEN "open" ELSE "move"]
                /\ UNCHANGED <<resp, tmpfs>>
    /\ UNCHANGED <<svc, spool>>
    /\ UNCHANGED <<api, walkerVars>>

\* A handler that never takes the file it found for a duplicate.
NeverDuplicate(contentLength, size) == FALSE

\* Whether an upload is a duplicate of the file found in the spool.
IsDuplicate(contentLength, size) == contentLength = size

\* BlobHandler 291-312: the file exists; open it and compare its size with
\* the declared length.
BlobHandlerOpen(r) ==
    /\ req[r].pc = "open"
    /\ IF Dst(r) \notin DOMAIN spool
       THEN /\ Reply(r, 500, NoLocation)
            /\ tmpfs' = Remove(tmpfs, r)
       ELSE IF IsDuplicate(req[r].in.cl, Len(spool[Dst(r)]))
       THEN /\ Reply(r, 202, DuplicateLocation(Digest(r)))
            /\ tmpfs' = Remove(tmpfs, r)
       ELSE /\ req' = [req EXCEPT ![r].pc = "move"]
            /\ UNCHANGED <<resp, tmpfs>>
    /\ UNCHANGED <<svc, dirs, spool>>
    /\ UNCHANGED <<api, walkerVars>>

\* MoveFile 295-314: open the source, create the temp file in the
\* destination directory.  faults: the filesystem failures that can happen.
MoveFileCreateTemp(r, faults) ==
    /\ req[r].pc = "move"
    /\ \E f \in {NoFault} \cup (faults \cap {"open", "createtemp"}) :
          IF f # NoFault
          THEN /\ MoveReturns(r, f)
               /\ UNCHANGED spool
          ELSE /\ spool' = Put(spool, MvTmp(r), <<>>)
               /\ req' = [req EXCEPT ![r].pc = "copy", ![r].mvN = 0]
    /\ UNCHANGED <<svc, dirs, tmpfs, resp>>
    /\ UNCHANGED <<api, walkerVars>>

\* MoveFile 316-322: io.Copy(tmp, in), one buffer at a time.  The writes go
\* to the open file, whether or not its name is still in the directory.  A
\* failed copy removes the temp file.
MoveFileCopy(r, faults) ==
    /\ req[r].pc = "copy"
    /\ req[r].mvN < Len(tmpfs[r])
    /\ \E f \in {NoFault} \cup (faults \cap {"copy"}) :
          IF f # NoFault
          THEN /\ MoveReturns(r, f)
               /\ spool' = Remove(spool, MvTmp(r))
          ELSE LET n == Min(req[r].mvN + CopyBufLen, Len(tmpfs[r])) IN
               /\ req' = [req EXCEPT ![r].mvN = n]
               /\ spool' = IF MvTmp(r) \in DOMAIN spool
                           THEN [spool EXCEPT ![MvTmp(r)] = SubSeq(tmpfs[r], 1, n)]
                           ELSE spool
    /\ UNCHANGED <<svc, dirs, tmpfs, resp>>
    /\ UNCHANGED <<api, walkerVars>>

\* MoveFile 324-341: close, chmod and rename the temp file onto the
\* destination; each failure removes the temp file.
MoveFileRename(r, faults) ==
    /\ req[r].pc = "copy"
    /\ req[r].mvN = Len(tmpfs[r])
    /\ \E f \in {NoFault} \cup (faults \cap {"close", "chmod", "rename"}) :
          IF f # NoFault
          THEN /\ MoveReturns(r, f)
               /\ spool' = Remove(spool, MvTmp(r))
          ELSE IF MvTmp(r) \notin DOMAIN spool
          THEN \* os.Chmod fails on the missing name
               /\ MoveReturns(r, "chmod")
               /\ UNCHANGED spool
          ELSE /\ spool' = Put(Remove(spool, MvTmp(r)), Dst(r), spool[MvTmp(r)])
               /\ req' = [req EXCEPT ![r].pc = "unlink", ![r].made = {Dst(r)}]
    /\ UNCHANGED <<svc, dirs, tmpfs, resp>>
    /\ UNCHANGED <<api, walkerVars>>

\* MoveFile 343-350: remove the source after the rename; a failure to
\* remove it is returned as the error of the move.
MoveFileRemoveSource(r, faults) ==
    /\ req[r].pc = "unlink"
    /\ \E f \in {NoFault} \cup (faults \cap {"remove"}) :
          IF f # NoFault
          THEN /\ MoveReturns(r, f)
               /\ UNCHANGED tmpfs
          ELSE /\ MoveReturns(r, NoErr)
               /\ tmpfs' = Remove(tmpfs, r)
    /\ UNCHANGED <<svc, dirs, spool, resp>>
    /\ UNCHANGED <<api, walkerVars>>

\* BlobHandler 313-340: the reply after MoveFile, the row for the URL
\* header when the service has a URLMap (an insert that fails is logged),
\* and the deferred removal of the handler's temp file.  inserts: what the
\* database can do with the insert.
BlobHandlerMoved(r, inserts) ==
    /\ req[r].pc = "moved"
    /\ IF req[r].mvErr # NoErr
       THEN /\ Reply(r, 500, NoLocation)
            /\ UNCHANGED svc
       ELSE /\ Reply(r, 202, SpooledLocation(Digest(r)))
            /\ IF Curi(req[r].in.hdr) # "" /\ svc.URLMap.set
               THEN \E outcome \in inserts :
                       svc' = [svc EXCEPT !.URLMap =
                                 URLMapInsert(@, Curi(req[r].in.hdr), Digest(r), r, outcome)]
               ELSE UNCHANGED svc
    /\ tmpfs' = Remove(tmpfs, r)
    /\ UNCHANGED <<dirs, spool>>
    /\ UNCHANGED <<api, walkerVars>>

Ingress ==
    \/ \E r \in Requests : BlobHandlerAdmit(r, DiskUsages, ContentLengths, {NoHeaders})
    \/ \E r \in Requests : BlobHandlerRead(r, Bodies)
    \/ \E r \in Requests : BlobHandlerStat(r)
    \/ \E r \in Requests : BlobHandlerOpen(r)
    \/ \E r \in Requests : MoveFileCreateTemp(r, {})
    \/ \E r \in Requests : MoveFileCopy(r, {})
    \/ \E r \in Requests : MoveFileRename(r, {})
    \/ \E r \in Requests : MoveFileRemoveSource(r, {})
    \/ \E r \in Requests : BlobHandlerMoved(r, {InsertOk})

----------------------------------------------------------------------------
(* The object client: src/blob.go 85-153.                                  *)

DefaultBucket  == "sandcrawler"
ErrInvalidHash == "invalid hash"
ErrStore       == "store error"

HasPrefix(s, pre) == Len(s) >= Len(pre) /\ SubSeq(s, 1, Len(pre)) = pre
HasSuffix(s, suf) == Len(s) >= Len(suf) /\ SubSeq(s, Len(s) - Len(suf) + 1, Len(s)) = suf

\* A path whose extension always gets a dot in front.
blobPathDotted(folder, sha1hex, ext, prefix) ==
    <<prefix, folder, "/", SubSeq(sha1hex, 1, 2), "/", SubSeq(sha1hex, 3, 4),
      "/", sha1hex, IF Len(ext) > 0 THEN <<".">> \o ext ELSE ext>>

\* blobPath: "%s%s/%s/%s/%s%s" of prefix, folder, the two shards, the hash
\* and the extension, the parts kept apart.
blobPath(folder, sha1hex, ext, prefix) ==
    LET e == IF Len(ext) > 0 /\ ~HasPrefix(ext, <<".">>) THEN <<".">> \o ext ELSE ext
    IN  <<prefix, folder, "/", SubSeq(sha1hex, 1, 2), "/", SubSeq(sha1hex, 3, 4),
          "/", sha1hex, e>>

\* The hash component of an object key.
KeyHash(key) == key[8]

\* The Content-Type PutBlob chooses from req.Ext.
ContentTypeOf(ext) ==
    IF HasSuffix(ext, <<".", "t", "x", "t">>) THEN "text/plain"
    ELSE IF HasSuffix(ext, <<".", "j", "p", "g">>)
            \/ HasSuffix(ext, <<".", "j", "p", "e", "g">>) THEN "image/jpeg"
    ELSE IF HasSuffix(ext, <<".", "p", "n", "g">>) THEN "image/png"
    ELSE IF HasSuffix(ext, <<".", "x", "m", "l">>) THEN "application/xml"
    ELSE "application/octet-stream"

BlobRequestOptions(bucket, folder, blob, sha1hex, ext, prefix) ==
    [Bucket |-> bucket, Folder |-> folder, Blob |-> blob, SHA1Hex |-> sha1hex,
     Ext |-> ext, Prefix |-> prefix]

\* The hash PutBlob keys the object with: computed from the blob when the
\* request carries none.
PutHash(o) == IF o.SHA1Hex = <<>> THEN Sha1Hex(o.Blob) ELSE o.SHA1Hex

\* What the store does with one PutBlob: "exists" and "make" fail in
\* BucketExists and MakeBucket, "put" fails in PutObject, "ok" stores.
StoreOutcomes == {"exists", "make", "put", "ok"}

\* The same with the caller's context done: BucketExists, which is not
\* given it, fails or not; the call after it ("done") fails at once.
DoneOutcomes == {"exists", "done"}

\* The object store as PutBlob sees it.
TheStore == [buckets |-> buckets, objects |-> objects]

\* PutBlob: the error, and the store after it.
PutBlob(store, o, outcome) ==
    LET sha    == PutHash(o)
        bucket == IF o.Bucket = "" THEN DefaultBucket ELSE o.Bucket
        object == [blob |-> o.Blob, ctype |-> ContentTypeOf(o.Ext)]
    IN  IF Len(sha) # ExpectedSHA1Length
        THEN [err |-> ErrInvalidHash, buckets |-> store.buckets, objects |-> store.objects]
        ELSE LET key == blobPath(o.Folder, sha, o.Ext, o.Prefix) IN
             IF \/ outcome \in {"exists", "done"}
                \/ (outcome = "make" /\ bucket \notin store.buckets)
             THEN [err |-> ErrStore, buckets |-> store.buckets, objects |-> store.objects]
             ELSE IF outcome = "put"
             THEN [err |-> ErrStore, buckets |-> store.buckets \cup {bucket},
                   objects |-> store.objects]
             ELSE [err |-> NoErr, buckets |-> store.buckets \cup {bucket},
                   objects |-> Put(store.objects, <<bucket, key>>, object)]

----------------------------------------------------------------------------
(* The object client called concurrently, PutBlob step by step: the hash    *)
(* and bucket defaults (blob.go 97-111), BucketExists (112-115), MakeBucket *)
(* (116-121), PutObject (135-152); and GetBlob (155-166).                   *)

Callers == 1..MaxWorkers

ErrBucketExists == "BucketAlreadyOwnedByYou"
ErrPanic        == "slice bounds out of range"

ExtXml    == <<"x", "m", "l">>
ExtDotXml == <<".">> \o ExtXml

\* The requests callers make: with and without bucket, prefix, extension and
\* hash, and with hashes of the wrong length or with a character that is no
\* hex digit.
PutRequests ==
    {BlobRequestOptions(bucket, "pdf", blob, sha1hex, ext, prefix) :
        bucket \in {"", "thumbnail"}, blob \in {<<>>, <<1>>},
        sha1hex \in {<<>>, Sha1Hex(<<1>>), SubSeq(Sha1Hex(<<1>>), 1, 8),
                     [i \in 1..ExpectedSHA1Length |-> IF i = 1 THEN NonHexChar ELSE 0]},
        ext \in {<<>>, ExtXml, ExtDotXml}, prefix \in {"", "dev-"}}

StoreFaults == {"exists", "make", "put"}

NoRequest == BlobRequestOptions("", "", <<>>, <<>>, <<>>, "")
NoAnswer  == [err |-> NoErr, blob |-> <<>>]

\* A caller: where it is in PutBlob, the request as it passed it, the
\* request struct as PutBlob has amended it, PutBlob's error, and the
\* request and answer of the GetBlob after it.
IdleCall == [pc |-> "idle", given |-> NoRequest, opts |-> NoRequest, err |-> NoErr,
             asked |-> NoRequest, got |-> NoAnswer]

\* GetBlob: blobPath slices the hash as it is in the request.
GetBlob(store, o) ==
    IF Len(o.SHA1Hex) < 4 THEN [err |-> ErrPanic, blob |-> <<>>]
    ELSE LET bucket == IF o.Bucket = "" THEN DefaultBucket ELSE o.Bucket
             key    == blobPath(o.Folder, o.SHA1Hex, o.Ext, o.Prefix)
         IN  IF <<bucket, key>> \in DOMAIN store.objects
             THEN [err |-> NoErr, blob |-> store.objects[<<bucket, key>>].blob]
             ELSE [err |-> ErrStore, blob |-> <<>>]

\* PutBlob 97-111: the hash is computed when empty and written back to the
\* request, its length is checked, the bucket is defaulted.
PutBlobStart(c, requests) ==
    /\ api[c].pc = "idle"
    /\ \E o \in requests :
          LET sha == PutHash(o) IN
          api' = [api EXCEPT ![c] =
                    IF Len(sha) # ExpectedSHA1Length
                    THEN [IdleCall EXCEPT !.pc = "done", !.given = o,
                                          !.opts = [o EXCEPT !.SHA1Hex = sha],
                                          !.err = ErrInvalidHash]
                    ELSE [IdleCall EXCEPT !.pc = "exists", !.given = o,
                                          !.opts = [o EXCEPT !.SHA1Hex = sha,
                                                             !.Bucket = IF @ = "" THEN DefaultBucket
                                                                        ELSE @]]]
    /\ UNCHANGED <<svc, dirs, spool, tmpfs, req, resp>>
    /\ UNCHANGED walkerVars

\* A call on the store by caller c that failed with err.
PutBlobFails(c, err) ==
    /\ api' = [api EXCEPT ![c].pc = "done", ![c].err = err]
    /\ UNCHANGED <<buckets, objects>>

\* PutBlob 112-115.
PutBlobBucketExists(c, faults) ==
    /\ api[c].pc = "exists"
    /\ \/ "exists" \in faults /\ PutBlobFails(c, ErrStore)
       \/ /\ api' = [api EXCEPT ![c].pc = IF api[c].opts.Bucket \in buckets
                                          THEN "put" ELSE "make"]
          /\ UNCHANGED <<buckets, objects>>
    /\ UNCHANGED <<svc, dirs, spool, tmpfs, req, resp>>
    /\ UNCHANGED <<cfg, run, todo, offer, wk, stats, cancelled>>

\* PutBlob 116-121: the store refuses to create a bucket that exists.
PutBlobMakeBucket(c, faults) ==
    /\ api[c].pc = "make"
    /\ \/ "make" \in faults /\ PutBlobFails(c, ErrStore)
       \/ IF api[c].opts.Bucket \in buckets
          THEN PutBlobFails(c, ErrBucketExists)
          ELSE /\ buckets' = buckets \cup {api[c].opts.Bucket}
               /\ api' = [api EXCEPT ![c].pc = "put"]
               /\ UNCHANGED objects
    /\ UNCHANGED <<svc, dirs, spool, tmpfs, req, resp>>
    /\ UNCHANGED <<cfg, run, todo, offer, wk, stats, cancelled>>

\* PutBlob 122-152.
PutBlobPutObject(c, faults) ==
    /\ api[c].pc = "put"
    /\ \/ "put" \in faults /\ PutBlobFails(c, ErrStore)
       \/ LET o   == api[c].opts
              key == blobPath(o.Folder, o.SHA1Hex, o.Ext, o.Prefix)
          IN  /\ objects' = Put(objects, <<o.Bucket, key>>,
                                [blob |-> o.Blob, ctype |-> ContentTypeOf(o.Ext)])
              /\ api' = [api EXCEPT ![c].pc = "done"]
              /\ UNCHANGED buckets
    /\ UNCHANGED <<svc, dirs, spool, tmpfs, req, resp>>
    /\ UNCHANGED <<cfg, run, todo, offer, wk, stats, cancelled>>

\* GetBlob after a PutBlob that returned nil, with a request of the same
\* fields as passed to PutBlob, or with the struct PutBlob amended.
GetBlobCall(c) ==
    /\ api[c].pc = "done"
    /\ api[c].err = NoErr
    /\ \E o \in {api[c].given, api[c].opts} :
          api' = [api EXCEPT ![c].pc = "got", ![c].asked = o,
                             ![c].got = GetBlob(TheStore, o)]
    /\ UNCHANGED <<svc, dirs, spool, tmpfs, req, resp>>
    /\ UNCHANGED walkerVars

ObjectClient ==
    \/ \E c \in Callers : PutBlobStart(c, PutRequests)
    \/ \E c \in Callers : PutBlobBucketExists(c, StoreFaults)
    \/ \E c \in Callers : PutBlobMakeBucket(c, StoreFaults)
    \/ \E c \in Callers : PutBlobPutObject(c, StoreFaults)
    \/ \E c \in Callers : GetBlobCall(c)

----------------------------------------------------------------------------
(* The derivation client: src/pdfextract/pdfextract.go 95-98, 189-303.     *)

\* The static list of digests known to hang the rasterizer.
BAD_PDF_SHA1HEX == {Sha1Hex(<<1, 1>>)}

\* What the external tools do with one file: creating the scratch file,
\* pdftotext, the rasterizer (an error, or the length of its output) and pdfinfo.
ThumbLens    == {ThumbMinLen - 1, ThumbMinLen, ThumbMinLen + 1}
ToolOutcomes == [scratch : {"ok", "err"}, text : {"ok", "empty", "err"},
                 thumb : {-1} \cup ThumbLens, meta : {"ok", "err"}]

Result(sha1hex, status, text, thumb) ==
    [SHA1Hex |-> sha1hex, Status |-> status, Text |-> text, Page0Thumbnail |-> thumb]

\* ProcessFile could not open or read the file.
NoResult == Result(<<>>, "", <<>>, <<>>)

ProcessBlob(blob, t) ==
    LET sha == Sha1Hex(blob) IN
    IF t.scratch = "err" THEN Result(sha, "", <<>>, <<>>)
    ELSE IF Mimetype(blob) # "application/pdf" THEN Result(sha, "not-pdf", <<>>, <<>>)
    ELSE IF sha \in BAD_PDF_SHA1HEX THEN Result(sha, "bad-pdf", <<>>, <<>>)
    ELSE IF t.text = "err" THEN Result(sha, "parse-error", <<>>, <<>>)
    ELSE IF t.text = "empty" THEN Result(sha, "empty-pdf", <<>>, <<>>)
    ELSE IF t.thumb < 0 THEN Result(sha, "parse-error", <<>>, <<>>)
    ELSE IF t.meta = "err" THEN Result(sha, "parse-error", <<>>, <<>>)
    ELSE Result(sha, "success", blob,
                IF t.thumb < ThumbMinLen THEN <<>> ELSE [i \in 1..t.thumb |-> 0])

HasPage0Thumbnail(result) == Len(result.Page0Thumbnail) > ThumbMinLen

----------------------------------------------------------------------------
(* The remote structured-XML client, a collaborator: its error, and the    *)
(* hash and body of its answer.                                            *)

TeiBody(blob) == <<2>> \o blob

\* The answers to one call for a file with content blob: an error, or a
\* body with the hash of the file, with no hash, or with a malformed hash.
GrobidAnswers(blob) ==
    {[err |-> TRUE, SHA1Hex |-> <<>>, Body |-> <<>>]}
    \cup {[err |-> FALSE, SHA1Hex |-> h, Body |-> TeiBody(blob)] :
            h \in {Sha1Hex(blob), <<>>, SubSeq(Sha1Hex(blob), 1, 8)}}

----------------------------------------------------------------------------
(* The walk: filepath.Walk over the spool, src/cmd/blobfetch/main.go       *)
(* 359-377 and src/misc.go 369-404.                                        *)

RootPath == <<>>

\* Lexical order of names, as readDirNames sorts them.
RECURSIVE NameLess(_, _)
NameLess(a, b) ==
    IF a = <<>> THEN b # <<>>
    ELSE IF b = <<>> THEN FALSE
    ELSE IF a[1] # b[1] THEN a[1] < b[1]
    ELSE NameLess(Tail(a), Tail(b))

RECURSIVE SortNames(_)
SortNames(S) ==
    IF S = {} THEN <<>>
    ELSE LET m == CHOOSE x \in S : \A y \in S \ {x} : NameLess(x, y)
         IN  <<m>> \o SortNames(S \ {m})

\* The names in a directory of the spool tree.
readDirNames(p) ==
    IF Len(p) = 0 THEN {d[1] : d \in dirs}
    ELSE IF Len(p) = 1 THEN {d[2] : d \in {x \in dirs : x[1] = p[1]}}
    ELSE {f[3] : f \in {x \in DOMAIN spool : DirOf(x) = p}}

\* The entries of directory p, in the order the walk visits them.
Entries(p) ==
    LET names == SortNames(readDirNames(p))
    IN  [i \in 1..Len(names) |-> p \o <<names[i]>>]

IsDir(p) == Len(p) < 3

NoPayload == [Path |-> <<>>, Size |-> 0]
Payload(path, size) == [Path |-> path, Size |-> size]

----------------------------------------------------------------------------
(* Executors of the per-file pipeline: the workers 1..NumWorkers of        *)
(* WalkFast, and 0 for the walk callback of runSequentialProcessor.        *)

Sequential == 0

Executors == IF cfg.mode = "sequential" THEN {Sequential}
             ELSE IF cfg.mode = "parallel" THEN 1..cfg.NumWorkers
             ELSE {}

\* No blocking call is being waited in.
NoWait == ""

\* An executor: where it is in the pipeline, the payload, the derivation's
\* status, whether the file counts as OK, the blocking call it waits in,
\* and whether the per-file context (worker 248) is done.
IdleWorker == [pc |-> "idle", path |-> <<>>, size |-> 0, status |-> "", ok |-> FALSE,
               wait |-> NoWait, ctxDone |-> FALSE]

\* Run before its first statement: nothing met by the walk, nothing handed
\* to a worker, no pipeline started.
IdleRun == [state |-> "init", err |-> NoErr, met |-> <<>>, taken |-> <<>>,
            started |-> <<>>]

ZeroStats == [Processed |-> 0, OK |-> 0, NumFiles |-> 0, NumOK |-> 0, NumSkipped |-> 0]

\* The places where WalkFast reads or writes w.stats, and whether w.mu is
\* held there: the worker's two increments (worker 234-236, 332-334) and
\* the producer's status line in the walk function (Run 370), which reads
\* Processed and calls SuccessRatio.
StatsAccesses ==
    {[site |-> "Processed++", by |-> "worker", write |-> TRUE, mu |-> TRUE],
     [site |-> "OK++", by |-> "worker", write |-> TRUE, mu |-> TRUE],
     [site |-> "walk status", by |-> "producer", write |-> FALSE, mu |-> FALSE]}

\* A ratio that divides whatever the count.
SuccessRatioUnguarded(ws) == [num |-> ws.OK, den |-> ws.Processed]

\* WalkStats.SuccessRatio, the float64 quotient as a fraction: 1.0 for
\* Processed = 0, else OK / Processed.
SuccessRatio(ws) ==
    IF ws.Processed = 0 THEN [num |-> 1, den |-> 1]
    ELSE [num |-> ws.OK, den |-> ws.Processed]

\* Run 344-358, runSequentialProcessor 353-368: the dependency checks, the
\* counters, the workers.
RunStart ==
    /\ run.state = "init"
    /\ IF cfg.mode = "parallel" /\ ~cfg.Grobid
       THEN /\ run' = [run EXCEPT !.state = "returned", !.err = "walker needs grobid setup"]
            /\ UNCHANGED todo
       ELSE IF cfg.mode = "parallel" /\ ~cfg.S3
       THEN /\ run' = [run EXCEPT !.state = "returned", !.err = "walker needs S3"]
            /\ UNCHANGED todo
       ELSE /\ run' = [run EXCEPT !.state = "walk"]
            /\ todo' = <<RootPath>>
    /\ UNCHANGED <<cfg, offer, wk, stats, cancelled, buckets, objects, spool>>
    /\ UNCHANGED ingressVars

\* A walk function that skips no file.
SkipsNoFile(size) == FALSE

\* Run 366-369: the walk function skips a file of size 0.
SkipsFile(size) == size = 0

\* One call of the walk function, with the lstat before it and, for a
\* directory, the reading of its names after it.
WalkVisit ==
    /\ run.state = "walk"
    /\ todo # <<>>
    /\ LET p   == Head(todo)
           seq == cfg.mode = "sequential"
           n1  == IF seq THEN [stats EXCEPT !.NumFiles = @ + 1] ELSE stats
       IN  IF IsDir(p)
           THEN /\ todo' = Entries(p) \o Tail(todo)
                /\ stats' = IF seq THEN [n1 EXCEPT !.NumSkipped = @ + 1] ELSE stats
                /\ UNCHANGED <<run, offer, wk>>
           ELSE IF p \notin DOMAIN spool
           THEN \* lstat fails: the walk function returns the error
                /\ run' = [run EXCEPT !.state = IF seq THEN "returned" ELSE "closing",
                                      !.err = "lstat"]
                /\ todo' = <<>>
                /\ stats' = n1
                /\ UNCHANGED <<offer, wk>>
           ELSE IF SkipsFile(Len(spool[p]))
           THEN /\ todo' = Tail(todo)
                /\ stats' = IF seq THEN [n1 EXCEPT !.NumSkipped = @ + 1] ELSE stats
                /\ UNCHANGED <<run, offer, wk>>
           ELSE IF seq
           THEN /\ todo' = Tail(todo)
                /\ stats' = n1
                /\ run' = [run EXCEPT !.state = "inline"]
                /\ wk' = [wk EXCEPT ![Sequential] =
                            [IdleWorker EXCEPT !.pc = "derive", !.path = p,
                                               !.size = Len(spool[p])]]
                /\ UNCHANGED offer
           ELSE /\ todo' = Tail(todo)
                /\ offer' = Payload(p, Len(spool[p]))
                /\ run' = [run EXCEPT !.state = "send", !.met = Append(@, p)]
                /\ UNCHANGED <<wk, stats>>
    /\ UNCHANGED <<cfg, cancelled, buckets, objects, spool>>
    /\ UNCHANGED ingressVars

\* The walk is over: Run 378 closes the queue; runSequentialProcessor returns.
WalkEnd ==
    /\ run.state = "walk"
    /\ todo = <<>>
    /\ run' = [run EXCEPT !.state = IF cfg.mode = "sequential" THEN "returned" ELSE "closing"]
    /\ UNCHANGED <<cfg, todo, offer, wk, stats, cancelled, buckets, objects, spool>>
    /\ UNCHANGED ingressVars

\* Run 371-375, the second case of the select: the outer context is done.
WalkSendCancelled ==
    /\ run.state = "send"
    /\ cancelled
    /\ run' = [run EXCEPT !.state = "closing", !.err = "context canceled"]
    /\ offer' = NoPayload
    /\ todo' = <<>>
    /\ UNCHANGED <<cfg, wk, stats, cancelled, buckets, objects, spool>>
    /\ UNCHANGED ingressVars

\* A worker that takes a payload whatever it is doing.
ReceivesAnytime(pc) == TRUE

\* worker 225: a worker receives from the queue at the top of its loop,
\* between two pipelines.
ReadyToReceive(pc) == pc = "idle"

\* A worker that runs the pipeline for every payload it receives.
DropsNever(done) == FALSE

\* worker 226-228: a payload received with the context done is dropped.
DropsPayload(done) == done

\* worker 225-236: a worker takes the payload off the queue; with the
\* context done it drops it, otherwise it counts it and starts the pipeline.
WorkerReceive(w) ==
    /\ run.state = "send"
    /\ ReadyToReceive(wk[w].pc)
    /\ run' = [run EXCEPT !.state = "walk", !.taken = Append(@, offer.Path),
                          !.started = IF DropsPayload(cancelled) THEN @
                                      ELSE Append(@, offer.Path)]
    /\ offer' = NoPayload
    /\ IF DropsPayload(cancelled)
       THEN UNCHANGED <<wk, stats>>
       ELSE /\ wk' = [wk EXCEPT ![w] =
                        [IdleWorker EXCEPT !.pc = "derive", !.path = offer.Path,
                                           !.size = offer.Size]]
            /\ stats' = [stats EXCEPT !.Processed = @ + 1]
    /\ UNCHANGED <<cfg, todo, cancelled, buckets, objects, spool>>
    /\ UNCHANGED ingressVars

\* worker 225, 339-340: the queue is closed and drained.
WorkerExit(w) ==
    /\ run.state = "closing"
    /\ wk[w].pc = "idle"
    /\ wk' = [wk EXCEPT ![w].pc = "exited"]
    /\ UNCHANGED <<cfg, run, todo, offer, stats, cancelled, buckets, objects, spool>>
    /\ UNCHANGED ingressVars

\* A wait that is over as soon as one worker has exited.
OneExited == \E w \in Executors : wk[w].pc = "exited"

\* wg.Wait of Run 379: every worker has called wg.Done.
AllExited == \A w \in Executors : wk[w].pc = "exited"

\* Run 379-380: wg.Wait, then the walk's error.
RunReturn ==
    /\ run.state = "closing"
    /\ AllExited
    /\ run' = [run EXCEPT !.state = "returned"]
    /\ UNCHANGED <<cfg, todo, offer, wk, stats, cancelled, buckets, objects, spool>>
    /\ UNCHANGED ingressVars

\* The caller cancels the context it passed to Run.
Cancel ==
    /\ cfg.mode = "parallel"
    /\ run.state \in {"init", "walk", "send", "closing"}
    /\ ~cancelled
    /\ cancelled' = TRUE
    /\ UNCHANGED <<cfg, run, todo, offer, wk, stats, buckets, objects, spool>>
    /\ UNCHANGED ingressVars

----------------------------------------------------------------------------
(* The per-file pipeline: worker 230-336, processSingleFile 440-536.       *)

ExtThumb == <<"1", "8", "0", "p", "x", ".", "j", "p", "g">>
ExtText  == <<"t", "x", "t">>
ExtTei   == <<"t", "e", "i", ".", "x", "m", "l">>

ThumbRequest(result) ==
    BlobRequestOptions("thumbnail", "pdf", result.Page0Thumbnail, result.SHA1Hex, ExtThumb, "")
TextRequest(result) ==
    BlobRequestOptions("sandcrawler", "text", result.Text, result.SHA1Hex, ExtText, "")
\* The hash of the structured-XML request: the one the remote service's answer carries.
GrobidRequestHash(gres) == gres.SHA1Hex
GrobidRequest(gres) ==
    BlobRequestOptions("sandcrawler", "grobid", gres.Body, GrobidRequestHash(gres), ExtTei, "")

\* Without an object client processSingleFile logs instead of putting.
S3Absent(e) == e = Sequential /\ ~cfg.S3

\* Whether the derivation's artifacts are put: the switch of worker 256-261.
PutsArtifacts(result) ==
    result.Status = "success" /\ Len(result.SHA1Hex) = ExpectedSHA1Length

\* worker 262-278: the thumbnail, if there is one.
AfterThumb(e, store, result, outcome) ==
    IF PutsArtifacts(result) /\ HasPage0Thumbnail(result) /\ ~S3Absent(e)
    THEN PutBlob(store, ThumbRequest(result), outcome)
    ELSE [err |-> NoErr, buckets |-> store.buckets, objects |-> store.objects]

\* worker 279-295: the text, if there is some.
AfterText(e, store, result, outcome) ==
    IF PutsArtifacts(result) /\ Len(result.Text) > 0 /\ ~S3Absent(e)
    THEN PutBlob(store, TextRequest(result), outcome)
    ELSE [err |-> NoErr, buckets |-> store.buckets, objects |-> store.objects]

\* The outcomes open to executor e: with its per-file context done the
\* tools are killed (exec.CommandContext), the remote call fails, and a
\* store call given the context fails.
ToolOutcomesOf(e) ==
    IF wk[e].ctxDone
    THEN {t \in ToolOutcomes : t.scratch = "err" \/ t.text = "err"}
    ELSE ToolOutcomes
StoreOutcomesOf(e) == IF wk[e].ctxDone THEN DoneOutcomes ELSE StoreOutcomes

\* What ProcessFile can return to executor e for its file.
ResultsOf(e) ==
    IF wk[e].path \in DOMAIN spool
    THEN {ProcessBlob(spool[wk[e].path], t) : t \in ToolOutcomesOf(e)}
    ELSE {NoResult}

\* worker 252-296: ProcessFile reads the file and runs the tools, then the
\* thumbnail and the text are put, whatever the first Put returned.
Derive(e) ==
    /\ wk[e].pc = "derive"
    /\ wk[e].wait = NoWait
    /\ \E result \in ResultsOf(e) :
       \E s2 \in {AfterText(e, AfterThumb(e, TheStore, result, o1), result, o2) :
                    o1 \in StoreOutcomesOf(e), o2 \in StoreOutcomesOf(e)} :
            /\ wk' = [wk EXCEPT ![e].status = result.Status, ![e].pc = "grobid"]
            /\ buckets' = s2.buckets
            /\ objects' = s2.objects
    /\ UNCHANGED <<cfg, run, todo, offer, stats, cancelled, spool>>
    /\ UNCHANGED ingressVars

\* Whether the remote XML service is skipped for a file of this size.
TooLargeForGrobid(size) == size > cfg.GrobidMaxFileSize

\* What the remote service can answer for the file at path p.
AnswersFor(p) ==
    IF p \in DOMAIN spool
    THEN GrobidAnswers(spool[p])
    ELSE {[err |-> TRUE, SHA1Hex |-> <<>>, Body |-> <<>>]}

\* The answers open to executor e: only the error once its context is done.
AnswersOf(e) ==
    IF wk[e].ctxDone THEN {g \in AnswersFor(wk[e].path) : g.err}
    ELSE AnswersFor(wk[e].path)

\* worker 297-330, processSingleFile 494-535: the size cap of the remote
\* service, the call, and the Put of its answer, for executor e on a file
\* of the given size, answer g of the service and outcome of the store.
\* Past the cap the worker returns without counting the file as OK;
\* processSingleFile returns nil there, and an error only when the Put fails.
GrobidStage(e, store, size, g, outcome) ==
    IF (e = Sequential /\ ~cfg.Grobid) \/ TooLargeForGrobid(size)
    THEN [ok |-> (e = Sequential), buckets |-> store.buckets, objects |-> store.objects]
    ELSE LET p == IF g.err \/ S3Absent(e)
                  THEN [err |-> NoErr, buckets |-> store.buckets, objects |-> store.objects]
                  ELSE PutBlob(store, GrobidRequest(g), outcome)
         IN  [ok |-> (e # Sequential \/ p.err = NoErr),
              buckets |-> p.buckets, objects |-> p.objects]

Grobid(e) ==
    /\ wk[e].pc = "grobid"
    /\ wk[e].wait = NoWait
    /\ \E s \in {GrobidStage(e, TheStore, wk[e].size, g, outcome) :
                    outcome \in StoreOutcomesOf(e), g \in AnswersOf(e)} :
           /\ wk' = [wk EXCEPT ![e].pc = "cleanup", ![e].ok = s.ok]
           /\ buckets' = s.buckets
           /\ objects' = s.objects
    /\ UNCHANGED <<cfg, run, todo, offer, stats, cancelled, spool>>
    /\ UNCHANGED ingressVars

\* A pipeline exit that removes the file whatever the keep flag says.
RemovesAlways(keepSpool) == TRUE

\* A pipeline exit that leaves the file in the spool.
RemovesNever(keepSpool) == FALSE

\* Whether the pipeline's exit removes the file: the deferred function of
\* worker 237-247 and runSequentialProcessor 384-394.
RemovesOnExit(keepSpool) == ~keepSpool

\* worker 331-336 with the deferred removal, runSequentialProcessor 384-403.
Cleanup(e) ==
    /\ wk[e].pc = "cleanup"
    /\ stats' = IF ~wk[e].ok THEN stats
                ELSE IF e = Sequential THEN [stats EXCEPT !.NumOK = @ + 1]
                ELSE [stats EXCEPT !.OK = @ + 1]
    /\ spool' = IF RemovesOnExit(cfg.KeepSpool) /\ wk[e].path \in DOMAIN spool
                THEN Remove(spool, wk[e].path)
                ELSE spool
    /\ wk' = [wk EXCEPT ![e] = IdleWorker]
    /\ run' = IF e = Sequential THEN [run EXCEPT !.state = "walk"] ELSE run
    /\ UNCHANGED <<cfg, todo, offer, cancelled, buckets, objects>>
    /\ UNCHANGED ingressVars

\* The calls a pipeline can block in, and the context each is given:
\* PutBlob hands BucketExists context.Background() (blob.go 112), the tools
\* (exec.CommandContext), the remote call, MakeBucket and PutObject get the
\* per-file context of worker 248.
BoundTo(call) == IF call = "BucketExists" THEN "background" ELSE "file"

\* The buckets the Puts of executor e's stage go to.
StageBuckets(e) ==
    IF wk[e].pc = "derive" THEN {ThumbRequest(NoResult).Bucket, TextRequest(NoResult).Bucket}
    ELSE {GrobidRequest([SHA1Hex |-> <<>>, Body |-> <<>>]).Bucket}

\* Whether executor e's stage gets as far as the remote call, and as a Put.
CallsGrobid(e) ==
    /\ wk[e].pc = "grobid"
    /\ ~(e = Sequential /\ ~cfg.Grobid)
    /\ ~TooLargeForGrobid(wk[e].size)
CanPut(e) ==
    /\ ~S3Absent(e)
    /\ IF wk[e].pc = "derive"
       THEN \E r \in ResultsOf(e) :
                PutsArtifacts(r) /\ (HasPage0Thumbnail(r) \/ Len(r.Text) > 0)
       ELSE CallsGrobid(e) /\ \E g \in AnswersOf(e) : ~g.err

\* The calls executor e's stage can block in: a call given a context that
\* is done returns at once.
StageCalls(e) ==
    LET calls == (IF wk[e].pc = "derive" /\ wk[e].path \in DOMAIN spool
                  THEN {"tools"} ELSE {})
                 \cup (IF CallsGrobid(e) THEN {"grobid"} ELSE {})
                 \cup (IF CanPut(e)
                       THEN {"BucketExists", "PutObject"}
                            \cup (IF StageBuckets(e) \subseteq buckets
                                  THEN {} ELSE {"MakeBucket"})
                       ELSE {})
    IN  {c \in calls : wk[e].ctxDone => BoundTo(c) = "background"}

\* A call of executor e's stage does not return.
CallBlocks(e) ==
    /\ wk[e].pc \in {"derive", "grobid"}
    /\ wk[e].wait = NoWait
    /\ \E c \in StageCalls(e) : wk' = [wk EXCEPT ![e].wait = c]
    /\ UNCHANGED <<cfg, run, todo, offer, stats, cancelled, buckets, objects, spool>>
    /\ UNCHANGED ingressVars

\* The call executor e waits in returns by itself.
CallReturns(e) ==
    /\ wk[e].wait # NoWait
    /\ wk' = [wk EXCEPT ![e].wait = NoWait]
    /\ UNCHANGED <<cfg, run, todo, offer, stats, cancelled, buckets, objects, spool>>
    /\ UNCHANGED ingressVars

\* worker 248: the timeout of the per-file context fires; a call bound to
\* that context returns.
DeadlineFires(e) ==
    /\ wk[e].pc \in {"derive", "grobid"}
    /\ ~wk[e].ctxDone
    /\ wk' = [wk EXCEPT ![e].ctxDone = TRUE,
                        ![e].wait = IF BoundTo(@) = "file" THEN NoWait ELSE @]
    /\ UNCHANGED <<cfg, run, todo, offer, stats, cancelled, buckets, objects, spool>>
    /\ UNCHANGED ingressVars

Walker ==
    \/ RunStart
    \/ WalkVisit
    \/ WalkEnd
    \/ WalkSendCancelled
    \/ Cancel
    \/ RunReturn
    \/ \E w \in Executors \ {Sequential} : WorkerReceive(w)
    \/ \E w \in Executors \ {Sequential} : WorkerExit(w)
    \/ \E e \in Executors : Derive(e)
    \/ \E e \in Executors : Grobid(e)
    \/ \E e \in Executors : Cleanup(e)

----------------------------------------------------------------------------
(* Initial states.                                                         *)

MaxFileSizes        == {0, 1}
MinFreeDiskPercents == {0, 5}

InitIngress ==
    /\ svc \in [MaxFileSize : MaxFileSizes, MinFreeDiskPercent : MinFreeDiskPercents,
               URLMap : {NoURLMap}]
    /\ tmpfs = << >>
    /\ req = [r \in Requests |-> IdleRequest]
    /\ resp = [r \in Requests |-> NoResponse]
    /\ api = NoCall

InitWalkerOff ==
    /\ cfg = [mode |-> "off", NumWorkers |-> 0, KeepSpool |-> FALSE,
              GrobidMaxFileSize |-> 1, S3 |-> TRUE, Grobid |-> TRUE]
    /\ run = [IdleRun EXCEPT !.state = "off"]
    /\ todo = <<>>
    /\ offer = NoPayload
    /\ wk = << >>
    /\ stats = ZeroStats
    /\ cancelled = FALSE
    /\ buckets = {}
    /\ objects = << >>

\* The walker's configurations: the sequential processor (which tolerates a
\* missing object client or XML client) and WalkFast with 1..MaxWorkers workers.
GrobidMaxFileSizes == {1}

Configs ==
    {c \in [mode : {"sequential", "parallel"}, NumWorkers : 1..MaxWorkers,
            KeepSpool : BOOLEAN, GrobidMaxFileSize : GrobidMaxFileSizes,
            S3 : BOOLEAN, Grobid : BOOLEAN] :
        /\ c.mode = "sequential" => c.NumWorkers = 1
        /\ c.S3 \/ c.Grobid}

InitWalker ==
    /\ cfg \in Configs
    /\ run = IdleRun
    /\ todo = <<>>
    /\ offer = NoPayload
    /\ wk = [e \in (IF cfg.mode = "sequential" THEN {Sequential} ELSE 1..cfg.NumWorkers)
                |-> IdleWorker]
    /\ stats = ZeroStats
    /\ cancelled = FALSE
    /\ buckets = {}
    /\ objects = << >>

\* The spool as ingress leaves it: complete uploads at their sharded paths.
SpoolOf(S) ==
    [p \in {shardedPath(Sha1Hex(b)).path : b \in S} |->
        CHOOSE b \in S : shardedPath(Sha1Hex(b)).path = p]

EmptySpool ==
    /\ dirs = {}
    /\ spool = << >>

\* The ingress service alone.
IngressAlone == InitIngress /\ EmptySpool /\ InitWalkerOff

SpecIngress == IngressAlone /\ [][Ingress]_vars

\* The walker alone, over a spool that uploads have filled; no request arrives.
InitSpooled ==
    \E S \in SUBSET Bodies :
        /\ Cardinality(S) <= MaxFiles
        /\ spool = SpoolOf(S)
        /\ dirs = {DirOf(p) : p \in DOMAIN SpoolOf(S)}

IngressOff ==
    /\ svc = [MaxFileSize |-> 0, MinFreeDiskPercent |-> 0, URLMap |-> NoURLMap]
    /\ tmpfs = << >>
    /\ req = [r \in Requests |-> [IdleRequest EXCEPT !.pc = "off"]]
    /\ resp = [r \in Requests |-> NoResponse]
    /\ api = NoCall

WalkerAlone == IngressOff /\ InitSpooled /\ InitWalker

SpecWalker == WalkerAlone /\ [][Walker]_vars

\* The status route alone, over a spool that uploads have filled.
StatusAlone == IngressOff /\ InitSpooled /\ InitWalkerOff

StatusNext ==
    \/ SpoolStatusGet(StatusIds)
    \/ ShardedPathCall(PathNames)

SpecStatus == StatusAlone /\ [][StatusNext]_vars

\* Ingress and walker together: one Run of the walker over a spool that
\* holds earlier uploads, while one producer uploads a body with its length
\* declared, the disk having room.
WellFormedUploads ==
    \/ \E r \in Requests :
         BlobHandlerAdmit(r, {u \in DiskUsages :
                                hasSufficientDiskSpace(svc.MinFreeDiskPercent, u)},
                          0..MaxBodyLen, {NoHeaders})
    \/ \E r \in Requests :
         BlobHandlerRead(r, {b \in Bodies : Len(b) = req[r].in.cl})
    \/ \E r \in Requests : BlobHandlerStat(r)
    \/ \E r \in Requests : BlobHandlerOpen(r)
    \/ \E r \in Requests : MoveFileCreateTemp(r, {})
    \/ \E r \in Requests : MoveFileCopy(r, {})
    \/ \E r \in Requests : MoveFileRename(r, {})
    \/ \E r \in Requests : MoveFileRemoveSource(r, {})
    \/ \E r \in Requests : BlobHandlerMoved(r, {InsertOk})

\* Ingress alone, with a filesystem that can fail under MoveFile: producers
\* upload bodies with their length declared, the disk having room.
FaultyMoves ==
    \/ \E r \in Requests :
         BlobHandlerAdmit(r, {u \in DiskUsages :
                                hasSufficientDiskSpace(svc.MinFreeDiskPercent, u)},
                          0..MaxBodyLen, {NoHeaders})
    \/ \E r \in Requests :
         BlobHandlerRead(r, {b \in Bodies : Len(b) = req[r].in.cl})
    \/ \E r \in Requests : BlobHandlerStat(r)
    \/ \E r \in Requests : BlobHandlerOpen(r)
    \/ \E r \in Requests : MoveFileCreateTemp(r, MoveFaults)
    \/ \E r \in Requests : MoveFileCopy(r, MoveFaults)
    \/ \E r \in Requests : MoveFileRename(r, MoveFaults)
    \/ \E r \in Requests : MoveFileRemoveSource(r, MoveFaults)
    \/ \E r \in Requests : BlobHandlerMoved(r, {InsertOk})

MoveAlone == IngressAlone /\ svc = [MaxFileSize |-> 0, MinFreeDiskPercent |-> 0, URLMap |-> NoURLMap]

SpecMove == MoveAlone /\ [][FaultyMoves]_vars

\* Ingress alone, producers that send URL headers and a service with or
\* without a URLMap, whose inserts can fail: the disk has room, bodies come
\* with their length declared, no size cap.
AuditedUploads ==
    \/ \E r \in Requests :
         BlobHandlerAdmit(r, {u \in DiskUsages :
                                hasSufficientDiskSpace(svc.MinFreeDiskPercent, u)},
                          0..MaxBodyLen, Headers)
    \/ \E r \in Requests :
         BlobHandlerRead(r, {b \in Bodies : Len(b) = req[r].in.cl})
    \/ \E r \in Requests : BlobHandlerStat(r)
    \/ \E r \in Requests : BlobHandlerOpen(r)
    \/ \E r \in Requests : MoveFileCreateTemp(r, {})
    \/ \E r \in Requests : MoveFileCopy(r, {})
    \/ \E r \in Requests : MoveFileRename(r, {})
    \/ \E r \in Requests : MoveFileRemoveSource(r, {})
    \/ \E r \in Requests : BlobHandlerMoved(r, InsertOutcomes)

AuditAlone ==
    /\ svc \in [MaxFileSize : {0}, MinFreeDiskPercent : {0}, URLMap : {NoURLMap, SomeURLMap}]
    /\ tmpfs = << >>
    /\ req = [r \in Requests |-> IdleRequest]
    /\ resp = [r \in Requests |-> NoResponse]
    /\ api = NoCall
    /\ EmptySpool
    /\ InitWalkerOff

SpecAudit == AuditAlone /\ [][AuditedUploads]_vars

\* WalkFast with both clients and files removed on exit.
TimedAlone ==
    /\ WalkerAlone
    /\ cfg.mode = "parallel" /\ cfg.S3 /\ cfg.Grobid /\ ~cfg.KeepSpool

\* WalkFast with goroutines that keep being scheduled and pipelines whose
\* calls all return.
FairWalker == TimedAlone /\ [][Walker]_vars /\ WF_vars(Walker)

\* The same with calls that can block and time out.

Timed ==
    \/ Walker
    \/ \E e \in Executors : CallBlocks(e)
    \/ \E e \in Executors : CallReturns(e)
    \/ \E e \in Executors : DeadlineFires(e)

SpecTimed == TimedAlone /\ [][Timed]_vars

\* The object client alone, called by MaxWorkers callers, the store empty.
StoreAlone ==
    /\ svc = [MaxFileSize |-> 0, MinFreeDiskPercent |-> 0, URLMap |-> NoURLMap]
    /\ tmpfs = << >>
    /\ req = [r \in Requests |-> [IdleRequest EXCEPT !.pc = "off"]]
    /\ resp = [r \in Requests |-> NoResponse]
    /\ api = [c \in Callers |-> IdleCall]
    /\ EmptySpool
    /\ InitWalkerOff

SpecStore == StoreAlone /\ [][ObjectClient]_vars

OneProducer ==
    /\ svc = [MaxFileSize |-> 0, MinFreeDiskPercent |-> 0, URLMap |-> NoURLMap]
    /\ tmpfs = << >>
    /\ req = [r \in Requests |-> IF r = 1 THEN IdleRequest
                                 ELSE [IdleRequest EXCEPT !.pc = "off"]]
    /\ resp = [r \in Requests |-> NoResponse]
    /\ api = NoCall

\* One worker of WalkFast, both clients configured, at most one earlier upload.
OneWorker ==
    /\ cfg.mode = "parallel"
    /\ cfg.NumWorkers = 1
    /\ cfg.S3
    /\ cfg.Grobid
    /\ Cardinality(DOMAIN spool) <= 1

Init == OneProducer /\ InitSpooled /\ InitWalker /\ OneWorker

Next == WellFormedUploads \/ Walker

Spec == Init /\ [][Next]_vars

----------------------------------------------------------------------------
(* Properties of the ingress service.                                      *)

\* The body a finished request received, its digest and its sharded path.
Received(r)     == req[r].in.body
ReceivedHash(r) == Sha1Hex(Received(r))
ReceivedPath(r) == shardedPath(ReceivedHash(r)).path

\* The request declared the length of its body, found room on the disk and
\* stayed within the size cap.
WellFormed(r) ==
    /\ req[r].in.cl = Len(Received(r))
    /\ hasSufficientDiskSpace(svc.MinFreeDiskPercent, req[r].in.usage)
    /\ svc.MaxFileSize > 0 => Len(Received(r)) <= svc.MaxFileSize

\* C1: every upload of a byte string B (the empty one included) with a
\* matching Content-Length, enough free disk and within the size cap is
\* answered 202, and afterwards (no worker removes files here) GET
\* /spool/<sha1(B)> answers 200 and the file at the sharded path of sha1(B)
\* holds exactly B.
UploadThenStatus ==
    \A r \in Requests :
        (req[r].pc = "done" /\ WellFormed(r)) =>
            /\ resp[r].status = 202
            /\ SpoolStatusHandler(ReceivedHash(r)) = 200
            /\ ReceivedPath(r) \in DOMAIN spool
            /\ spool[ReceivedPath(r)] = Received(r)

\* C7: two uploads of the same bytes, the second arriving after the first
\* was answered, are both answered 202 with the identical Location (stated
\* for a service without a size cap).
SameLocationTwice ==
    \A r1, r2 \in Requests :
        (/\ req[r1].pc = "done" /\ req[r2].pc = "done"
         /\ svc.MaxFileSize = 0
         /\ r1 \in req[r2].after
         /\ WellFormed(r1) /\ WellFormed(r2)
         /\ Received(r1) = Received(r2)
         /\ resp[r1].status = 202) =>
            /\ resp[r2].status = 202
            /\ resp[r2].location = resp[r1].location

\* C8: every reply with status 202 carries the Location /spool/<H>, H the
\* hex SHA-1 (ExpectedSHA1Length digits) of the body received.
LocationIsSpoolPath ==
    \A r \in Requests :
        resp[r].status = 202 =>
            /\ Len(ReceivedHash(r)) = ExpectedSHA1Length
            /\ resp[r].location = <<"/spool/", ReceivedHash(r)>>

\* C9: a request that finds its file in the spool, the file's size equal to
\* the declared Content-Length, finishes in that step with 202 and leaves
\* the spool as it is: nothing is rewritten, replaced or renamed.
DuplicateLeavesFile ==
    [][\A r \in Requests :
          (/\ req[r].pc = "open"
           /\ Dst(r) \in DOMAIN spool
           /\ req[r].in.cl = Len(spool[Dst(r)])
           /\ req'[r] # req[r]) =>
              /\ spool' = spool
              /\ spool[Dst(r)] = tmpfs[r]
              /\ req'[r].pc = "done"
              /\ resp'[r].status = 202]_vars

\* C9's case: a re-upload answered 202 as a duplicate, its file in place.
DuplicateAnswered ==
    \E r \in Requests :
        /\ req[r].pc = "done"
        /\ req[r].after # {}
        /\ resp[r] = Response(202, DuplicateLocation(ReceivedHash(r)))
        /\ ReceivedPath(r) \in DOMAIN spool
        /\ spool[ReceivedPath(r)] = Received(r)
        /\ Len(Received(r)) > 0

\* C10: an upload without Content-Length is answered 202 whatever the
\* length of its body (the disk has room, no size cap is configured).
NoLengthAccepted ==
    \A r \in Requests :
        (/\ req[r].pc = "done"
         /\ req[r].in.cl = NoContentLength
         /\ hasSufficientDiskSpace(svc.MinFreeDiskPercent, req[r].in.usage)
         /\ svc.MaxFileSize = 0) =>
            resp[r].status = 202

----------------------------------------------------------------------------
(* Properties of the spool and the walker.                                 *)

\* The file at path p is a complete upload at the sharded path of its digest.
IsCompleteUpload(p) == p = shardedPath(Sha1Hex(spool[p])).path

\* The path names a file MoveFile's os.CreateTemp made.
IsMoveTemp(p) == Len(p) = 3 /\ p[3][1] = TmpMoveMark

\* C2: at every moment every regular file under the spool root is a complete
\* upload at the sharded path of the SHA-1 of its content; no temporary or
\* partially written file is in the spool tree, and none is handed to a
\* worker.
SpoolHoldsCompleteUploads ==
    /\ \A p \in DOMAIN spool : IsCompleteUpload(p)
    /\ ~IsMoveTemp(offer.Path)
    /\ \A e \in Executors : ~IsMoveTemp(wk[e].path)

\* C3: a file leaves the spool only in the exit of the pipeline that ran
\* for it, in the executor that ran it, and never with the keep flag set;
\* with the keep flag set no step of a Run changes the spool.
RemovedByItsPipeline ==
    [][/\ \A p \in DOMAIN spool :
            p \notin DOMAIN spool' =>
                /\ ~cfg.KeepSpool
                /\ \E e \in Executors :
                      /\ wk[e].pc = "cleanup"
                      /\ wk[e].path = p
                      /\ wk'[e] = IdleWorker
                      /\ \A o \in Executors \ {e} : wk'[o] = wk[o]
       /\ cfg.KeepSpool => spool' = spool]_vars

\* C3's case: a Run without the keep flag that has processed files and
\* removed them.
RunRemovedFiles ==
    /\ run.state = "returned"
    /\ ~cfg.KeepSpool
    /\ stats.Processed = MaxFiles
    /\ spool = << >>

Written == {k \in DOMAIN objects' : k \notin DOMAIN objects \/ objects'[k] # objects[k]}

\* The executor whose pipeline takes the step.
Steps(e) == wk[e].pc \in {"derive", "grobid"} /\ wk'[e].pc # wk[e].pc

\* C5: every object a pipeline writes is keyed by the SHA-1 of the spool
\* file that pipeline processes, for the thumbnail, the text and the
\* structured XML, whatever the remote service answers.
ObjectsKeyedByFileHash ==
    [][\A e \in Executors :
          (Steps(e) /\ wk[e].path \in DOMAIN spool) =>
              \A k \in Written : KeyHash(k[2]) = Sha1Hex(spool[wk[e].path])]_vars

\* C6: the pipeline of a file with derivation status not-pdf writes no
\* object, and with the keep flag off its exit removes the file.
NotPdfWritesNothing ==
    [][\A e \in Executors :
          /\ (wk[e].pc = "derive" /\ wk'[e].status = "not-pdf") => objects' = objects
          /\ (wk[e].pc = "grobid" /\ wk[e].status = "not-pdf" /\ wk'[e].pc # "grobid")
                => objects' = objects
          /\ (wk[e].pc = "cleanup" /\ wk[e].status = "not-pdf" /\ wk'[e] # wk[e]
               /\ ~cfg.KeepSpool) => wk[e].path \notin DOMAIN spool']_vars

----------------------------------------------------------------------------
(* Properties of admission and of the drain.                               *)

\* The request got past admission: the disk had room and the declared
\* length was within the size cap.
Admitted(r) ==
    /\ req[r].pc # "idle"
    /\ hasSufficientDiskSpace(svc.MinFreeDiskPercent, req[r].in.usage)
    /\ svc.MaxFileSize > 0 => req[r].in.cl <= svc.MaxFileSize

Threshold == IF svc.MinFreeDiskPercent > 0 THEN svc.MinFreeDiskPercent ELSE 10

\* The free space of a disk usage is below t percent.
BelowPercent(usage, t) == usage.Free * 100 < t * usage.Total

CapIsExact ==
    /\ \A r \in Requests :
          (/\ req[r].pc = "done"
           /\ svc.MaxFileSize > 0
           /\ hasSufficientDiskSpace(svc.MinFreeDiskPercent, req[r].in.usage)
           /\ req[r].in.cl # NoContentLength) =>
              /\ resp[r].status = 413 <=>
                    (\/ req[r].in.cl > svc.MaxFileSize
                     \/ Len(Received(r)) > svc.MaxFileSize)
              /\ (Len(Received(r)) = svc.MaxFileSize
                   /\ req[r].in.cl = svc.MaxFileSize) => resp[r].status = 202
    /\ \A r \in DOMAIN tmpfs :
          svc.MaxFileSize > 0 => Len(tmpfs[r]) <= svc.MaxFileSize

----------------------------------------------------------------------------
(* Properties of the status route.                                         *)

\* The id is exactly ExpectedSHA1Length hexadecimal characters.
IsHexDigest(id) ==
    /\ Len(id) = 40
    /\ \A i \in 1..Len(id) : id[i] \in 0..15

\* C14: GET /spool/{id} answers 400 for every id that is not exactly 40
\* hexadecimal characters; for a well-formed id 200 if the spool holds its
\* file and 404 if not.
StatusByIdAndSpool ==
    (api.call = "status" /\ api.stat = StatOk) =>
        IF ~IsHexDigest(api.id) THEN api.status = 400
        ELSE IF shardedPath(api.id).path \in DOMAIN spool THEN api.status = 200
        ELSE api.status = 404

----------------------------------------------------------------------------
(* Properties of MoveFile.                                                 *)

\* The destination paths of the spool: every path but MoveFile's temp names.
Destinations(f) == {p \in DOMAIN f : ~IsMoveTemp(p)}

\* C15: the move is atomic at the destination: a destination path never
\* disappears, and whenever it appears or its content changes, it is by the
\* rename of a request whose copy is complete, and holds the whole content
\* of the source, never a prefix; MoveFile unlinks the source only after
\* its rename onto the destination.
MoveIsAtomic ==
    [][/\ \A p \in Destinations(spool) : p \in DOMAIN spool'
       /\ \A p \in Destinations(spool') :
            (p \notin DOMAIN spool \/ spool'[p] # spool[p]) =>
                \E r \in Requests :
                    /\ req[r].pc = "copy" /\ req'[r].pc = "unlink"
                    /\ p = Dst(r)
                    /\ r \in DOMAIN tmpfs /\ spool'[p] = tmpfs[r]
       /\ \A r \in Requests :
            (/\ req[r].pc \in {"move", "copy", "unlink"}
             /\ r \in DOMAIN tmpfs /\ r \notin DOMAIN tmpfs') =>
                /\ req[r].pc = "unlink"
                /\ Dst(r) \in DOMAIN spool /\ spool[Dst(r)] = tmpfs[r]]_vars

\* C15's case: two requests have moved the same body of several buffers
\* onto one destination, the second replacing the file of the first.
MovedOntoExisting ==
    \E r, q \in Requests :
        /\ r # q
        /\ req[r].pc = "moved" /\ req[r].mvErr = NoErr
        /\ req[q].pc = "done" /\ resp[q] = Response(202, SpooledLocation(Digest(q)))
        /\ Digest(r) = Digest(q)
        /\ Len(req[r].in.body) > CopyBufLen
        /\ spool[Dst(r)] = req[r].in.body

\* C16: when MoveFile returns an error the call has not put anything at the
\* destination (it returns from before its rename, and the returning step
\* changes no destination path) and the source still exists; when it
\* returns nil the destination holds the content of the source and the
\* source is gone.
MoveAllOrNothing ==
    [][\A r \in Requests :
          (req[r].pc \in {"move", "copy", "unlink"} /\ req'[r].pc = "moved") =>
              IF req'[r].mvErr # NoErr
              THEN /\ req[r].pc # "unlink"
                   /\ Destinations(spool') = Destinations(spool)
                   /\ \A p \in Destinations(spool) : spool'[p] = spool[p]
                   /\ r \in DOMAIN tmpfs'
              ELSE /\ Dst(r) \in DOMAIN spool'
                   /\ spool'[Dst(r)] = tmpfs[r]
                   /\ r \notin DOMAIN tmpfs']_vars

----------------------------------------------------------------------------
(* Properties of the walker's topologies.                                  *)

\* C17: without an object client the walker still runs, with one worker or
\* several: Run returns without error, every file of non-zero length has
\* gone through its pipeline and is removed (keep flag off), and nothing is
\* written to the object store.
RunsWithoutObjectClient ==
    (~cfg.S3 /\ run.state = "returned" /\ ~cancelled) =>
        /\ run.err = NoErr
        /\ objects = << >>
        /\ ~cfg.KeepSpool => \A p \in DOMAIN spool : Len(spool[p]) = 0

\* C18: with both clients present the sequential processor and a pool
\* worker treat a file alike: for the same file, the same answer of the
\* remote XML service and the same outcome of the object store, the last
\* stage of the pipeline writes the same objects and counts the file as
\* successful in the one exactly when it does in the other.
SequentialLikeParallel ==
    (cfg.S3 /\ cfg.Grobid) =>
        \A e \in Executors :
            wk[e].pc = "grobid" =>
                \A g \in AnswersFor(wk[e].path), outcome \in StoreOutcomes :
                    GrobidStage(Sequential, TheStore, wk[e].size, g, outcome)
                        = GrobidStage(1, TheStore, wk[e].size, g, outcome)

----------------------------------------------------------------------------
(* Properties of cancellation and the per-file deadline.                   *)

InFlight(e) == wk[e].pc \in {"derive", "grobid"}

\* C19: when the context passed to Run is cancelled, the per-file context
\* of every pipeline in flight at that moment is done as well.
CancelReachesPipelines ==
    [][(~cancelled /\ cancelled') =>
          \A e \in Executors : InFlight(e) => wk'[e].ctxDone]_vars

\* C20: every blocking step of a pipeline is bound to the per-file
\* context: once the deadline has fired the pipeline waits in no call.
DeadlineEndsEveryCall ==
    \A e \in Executors : wk[e].ctxDone => wk[e].wait = NoWait

----------------------------------------------------------------------------
(* Properties of Run's end.                                                *)

\* C21: Run terminates, and when it has returned no pipeline is running:
\* every worker that was started has exited.
RunTerminates ==
    /\ <>(run.state = "returned")
    /\ [](run.state = "returned" =>
            \A e \in Executors : wk[e].pc = "exited")

\* Run has returned after two workers ran a pipeline each.
ReturnedAfterTwoPipelines ==
    /\ run.state = "returned"
    /\ cfg.mode = "parallel" /\ cfg.NumWorkers = 2
    /\ stats.Processed = 2

----------------------------------------------------------------------------
(* Properties of the object client.                                        *)

\* PutBlob has returned to caller c.
Returned(c) == api[c].pc \in {"done", "got"}

\* C22: two Puts to the same bucket that run concurrently both succeed
\* when the store fails neither of them: none fails because the other
\* created the bucket between its existence check and its create call.
ConcurrentCreatorsTolerated ==
    \A c1, c2 \in Callers :
        (/\ c1 # c2
         /\ Returned(c1) /\ Returned(c2)
         /\ api[c1].opts.Bucket = api[c2].opts.Bucket
         /\ api[c1].err \notin {ErrStore, ErrInvalidHash}
         /\ api[c2].err \notin {ErrStore, ErrInvalidHash}) =>
            api[c1].err = NoErr /\ api[c2].err = NoErr

\* The extension part of an object key.
KeyExt(key) == key[9]

\* C23: the Content-Type of every stored object is the one the extension
\* table gives for the extension as it appears in the object's key.
TypeFollowsKeyExtension ==
    \A k \in DOMAIN objects : objects[k].ctype = ContentTypeOf(KeyExt(k[2]))

\* The bucket and key PutBlob wrote caller c's object to.
PutKey(c) ==
    LET o == api[c].opts
    IN  <<o.Bucket, blobPath(o.Folder, o.SHA1Hex, o.Ext, o.Prefix)>>

\* C24: a Get called with the fields of a Put that succeeded returns the
\* bytes that were put, as long as the object is the one that was put.
GetReturnsWhatWasPut ==
    \A c \in Callers :
        (/\ api[c].pc = "got"
         /\ api[c].asked = api[c].given
         /\ PutKey(c) \in DOMAIN objects
         /\ objects[PutKey(c)].blob = api[c].given.Blob) =>
            api[c].got = [err |-> NoErr, blob |-> api[c].given.Blob]

\* The extension without the dot it may start with.
StripDot(ext) == IF HasPrefix(ext, <<".">>) THEN Tail(ext) ELSE ext

\* <prefix><folder>/<H[0:2]>/<H[2:4]>/<H>[.<ext>] for request o and hash H.
KeyFormat(o, H) ==
    <<o.Prefix, o.Folder, "/", SubSeq(H, 1, 2), "/", SubSeq(H, 3, 4), "/", H,
      IF o.Ext = <<>> THEN <<>> ELSE <<".">> \o StripDot(o.Ext)>>

\* C25: the object of every Put that succeeded is in the store under the
\* key <prefix><folder>/<H[0:2]>/<H[2:4]>/<H>, followed by one dot and the
\* extension when ext is not empty, whether ext was given with or without
\* its dot, H being the request's hash or, when empty, the blob's.
KeyHasExactFormat ==
    \A c \in Callers :
        (api[c].pc \in {"done", "got"} /\ api[c].err = NoErr) =>
            <<IF api[c].given.Bucket = "" THEN DefaultBucket ELSE api[c].given.Bucket,
              KeyFormat(api[c].given, PutHash(api[c].given))>> \in DOMAIN objects

\* Two Puts that differ in the dot of the extension have written one key.
DotAndNoDotShareKey ==
    \E c1, c2 \in Callers :
        /\ api[c1].pc = "done" /\ api[c1].err = NoErr /\ api[c1].given.Ext = ExtXml
        /\ api[c2].pc = "done" /\ api[c2].err = NoErr /\ api[c2].given.Ext = ExtDotXml
        /\ Cardinality(DOMAIN objects) = 1

\* C26: a Put with an empty hash uses the SHA-1 of the blob; a Put with a
\* hash that is not empty and not 40 hex digits fails with InvalidHash
\* before any call on the store.
MalformedHashRejected ==
    \A c \in Callers :
        api[c].pc # "idle" =>
            /\ api[c].given.SHA1Hex = <<>> => api[c].opts.SHA1Hex = Sha1Hex(api[c].given.Blob)
            /\ (api[c].given.SHA1Hex # <<>> /\ ~IsHexDigest(api[c].given.SHA1Hex)) =>
                    api[c].pc = "done" /\ api[c].err = ErrInvalidHash

----------------------------------------------------------------------------
(* Properties of the sharded store.                                        *)

\* C27: for a name of at least 8 characters shardedPath returns
\* <root>/<H[0:2]>/<H[2:4]>/<H[4:]>, for a shorter one the short-name error
\* and an empty path; without the create flag no directory is made, with
\* it the two directories above the file exist afterwards and a second
\* call returns the same.
PathIsSharded ==
    api.call = "shardedPath" =>
        IF Len(api.name) < 8
        THEN api.err = errShortName /\ api.path = <<>> /\ dirs = api.was
        ELSE /\ ~api.create => api.err = NoErr /\ dirs = api.was
             /\ api.err = NoErr =>
                  /\ api.path = <<SubSeq(api.name, 1, 2), SubSeq(api.name, 3, 4),
                                  SubSeq(api.name, 5, Len(api.name))>>
                  /\ api.create =>
                       /\ <<SubSeq(api.name, 1, 2), SubSeq(api.name, 3, 4)>> \in dirs
                       /\ shardedPathCreate(api.name, TRUE, dirs, "err")
                            = [path |-> api.path, err |-> NoErr, dirs |-> dirs]

\* C28: when the lookup of the file fails for a reason other than its
\* absence, the existence check returns an error and the status route
\* answers 500: the file is not reported absent.
LookupFailureIs500 ==
    (/\ api.call = "status"
     /\ Len(api.id) = ExpectedSHA1Length
     /\ api.stat # StatOk) =>
        /\ shardedPathExistsStat(api.id, api.stat).err # NoErr
        /\ api.status = 500

----------------------------------------------------------------------------
(* Properties of the derivation client.                                    *)

\* The statuses a Result may carry.
Statuses == {"success", "not-pdf", "bad-pdf", "empty-pdf", "parse-error"}

\* C29: the status of every Result the derivation client has returned to
\* a pipeline is one of the five statuses.
StatusIsClosed ==
    \A e \in Executors :
        wk[e].pc \in {"grobid", "cleanup"} => wk[e].status \in Statuses

\* C30: the threshold of ThumbMinLen bytes is applied alike everywhere:
\* for every Result of ProcessBlob, whatever the tools did, the thumbnail
\* is reported present exactly when the Result holds one, and a rasterizer
\* output is held exactly when it has ThumbMinLen bytes or more.
ThresholdConsistent ==
    \A p \in DOMAIN spool : \A t \in ToolOutcomes :
        LET result == ProcessBlob(spool[p], t) IN
        /\ HasPage0Thumbnail(result) <=> result.Page0Thumbnail # <<>>
        /\ result.Status = "success" =>
                (result.Page0Thumbnail # <<>> <=> t.thumb >= ThumbMinLen)

----------------------------------------------------------------------------
(* Properties of the audit table.                                          *)

\* The rows the handler of request r inserted.
RowsBy(r) == {i \in DOMAIN svc.URLMap.rows : svc.URLMap.rows[i].by = r}

\* C31: with a URLMap configured, every upload answered 202 that carried a
\* URL header has exactly one row (URL, H) inserted for it, URL the value
\* of X-BLOBPROC-URL if present and else of X-Heritrix-CURI, H the digest
\* of its body; first uploads and duplicates alike.
OneRowPerAcceptedUpload ==
    \A r \in Requests :
        (/\ svc.URLMap.set
         /\ req[r].pc = "done"
         /\ resp[r].status = 202
         /\ Curi(req[r].in.hdr) # "") =>
            /\ Cardinality(RowsBy(r)) = 1
            /\ \A i \in RowsBy(r) :
                  /\ svc.URLMap.rows[i].url = Curi(req[r].in.hdr)
                  /\ svc.URLMap.rows[i].sha1 = ReceivedHash(r)

----------------------------------------------------------------------------
(* Properties of admission with no minimum configured.                     *)

\* C32: with MinFreeDiskPercent set to 0 hasSufficientDiskSpace reports
\* sufficient space whatever the disk's usage: no request is turned away
\* with 429.
ZeroPercentAdmitsAll ==
    \A r \in Requests :
        (svc.MinFreeDiskPercent = 0 /\ req[r].pc # "idle") =>
            /\ hasSufficientDiskSpace(svc.MinFreeDiskPercent, req[r].in.usage)
            /\ resp[r].status # 429

----------------------------------------------------------------------------
(* Properties of the dispatch of files to workers.                         *)

\* How often x occurs in the sequence s.
Count(s, x) == Cardinality({i \in DOMAIN s : s[i] = x})

\* What is on the queue or in a pipeline is a regular file that was not
\* empty when the walk met it.
OnlyNonEmptyFiles ==
    /\ offer # NoPayload => (~IsDir(offer.Path) /\ offer.Size > 0)
    /\ \A i \in DOMAIN run.met : ~IsDir(run.met[i])
    /\ \A e \in Executors :
          wk[e].pc \notin {"idle", "exited"} => (~IsDir(wk[e].path) /\ wk[e].size > 0)

\* C33 as stated: within one Run every regular non-empty file met by the
\* walk is handed to exactly one worker (or is being offered), its pipeline
\* is started at most once, and no directory and no zero-length file is
\* dispatched.
DispatchedExactlyOnce ==
    /\ OnlyNonEmptyFiles
    /\ \A i \in DOMAIN run.met :
          LET p == run.met[i] IN
          /\ Count(run.taken, p) = 1 \/ (Count(run.taken, p) = 0 /\ offer.Path = p)
          /\ Count(run.started, p) <= 1

\* C33, amended: every regular non-empty file met by the walk is handed to
\* at most one worker and its pipeline is started at most once, only files
\* met by the walk are handed over, and while the context of Run is not
\* cancelled every such file is handed to exactly one worker, which starts
\* its pipeline; no directory and no zero-length file is dispatched.
DispatchedAtMostOnce ==
    /\ OnlyNonEmptyFiles
    /\ \A i \in DOMAIN run.taken : Count(run.met, run.taken[i]) = 1
    /\ \A i \in DOMAIN run.started : Count(run.taken, run.started[i]) = 1
    /\ \A i \in DOMAIN run.met :
          LET p == run.met[i] IN
          /\ Count(run.taken, p) <= 1
          /\ Count(run.started, p) <= 1
          /\ ~cancelled =>
                /\ Count(run.taken, p) = 1 \/ offer.Path = p
                /\ Count(run.started, p) = Count(run.taken, p)

\* C33's case: a Run of two workers, never cancelled, that has met two
\* files and started a pipeline for each.
TwoFilesDispatched ==
    /\ run.state = "returned" /\ ~cancelled
    /\ cfg.NumWorkers = 2
    /\ Len(run.met) = 2 /\ Len(run.started) = 2
    /\ run.met[1] # run.met[2]

\* The workers that are running a pipeline.
Busy == {e \in Executors : wk[e].pc \notin {"idle", "exited"}}

\* C34: backpressure.  In every state at most NumWorkers pipelines are in
\* flight and the producer holds at most one file that it has walked and
\* no worker has accepted; while all workers are busy the producer, holding
\* that file, does not advance the walk: the walk and the file offered stay
\* as they are until a worker is free (or the context is cancelled and the
\* producer gives up).
Backpressure ==
    /\ [](cfg.mode = "parallel" =>
            /\ Cardinality(Busy) <= cfg.NumWorkers
            /\ Len(run.started) - Len(run.taken) <= 0
            /\ Len(run.met) - Len(run.taken) <= 1
            /\ (run.state = "send") <=> (offer # NoPayload)
            /\ (Len(run.met) - Len(run.taken) = 1 /\ ~cancelled) => run.state = "send")
    /\ [][(cfg.mode = "parallel" /\ run.state = "send" /\ Busy = Executors) =>
            \/ todo' = todo /\ offer' = offer /\ run' = run
            \/ cancelled /\ run'.state = "closing"]_vars

\* C34's case: the only worker is busy with the first file while the
\* producer holds the second.
ProducerWaits ==
    /\ cfg.mode = "parallel"
    /\ run.state = "send"
    /\ Busy = Executors
    /\ Len(run.met) = 2 /\ Len(run.taken) = 1

----------------------------------------------------------------------------
(* Properties of the walk counters.                                        *)

\* C35: in every state of a Run 0 <= OK <= Processed and Processed is the
\* number of pipelines started so far; SuccessRatio is 1.0 when Processed
\* is 0 and OK / Processed otherwise, and so lies within [0, 1].
CountersConsistent ==
    cfg.mode = "parallel" =>
        /\ 0 <= stats.OK /\ stats.OK <= stats.Processed
        /\ stats.Processed = Len(run.started)
        /\ LET q == SuccessRatio(stats) IN
              /\ q.den > 0
              /\ stats.Processed = 0 => q.num = q.den
              /\ stats.Processed # 0 => (q.num = stats.OK /\ q.den = stats.Processed)
              /\ 0 <= q.num /\ q.num <= q.den

\* C35's case: a Run that started two pipelines, one of which counted as OK.
HalfSucceeded ==
    /\ cfg.mode = "parallel"
    /\ run.state = "returned"
    /\ stats.Processed = 2 /\ stats.OK = 1
    /\ SuccessRatio(stats) = [num |-> 1, den |-> 2]

----------------------------------------------------------------------------
(* Properties of a cancelled Run.                                          *)

----------------------------------------------------------------------------
(* Properties of uploads that are not accepted.                            *)

\* The temporary files of request r: the handler's in the temp directory
\* and MoveFile's beside the destination.
TempsOf(r) ==
    {n \in DOMAIN tmpfs : n = r}
    \cup {p \in DOMAIN spool : IsMoveTemp(p) /\ p[3] = TmpMoveName(r)}

\* C37: an upload answered with a status other than 202 has created or
\* replaced no file in the spool and has left no temporary file behind.
RejectedLeavesNoTrace ==
    \A r \in Requests :
        (req[r].pc = "done" /\ resp[r].status # 202) =>
            /\ req[r].made = {}
            /\ TempsOf(r) = {}

----------------------------------------------------------------------------
(* Properties of uploads while the walker runs.                            *)

\* C38: an upload that passed admission and whose body was read completely
\* with matching Content-Length is answered 202, whatever a worker that
\* removes spool files does in between.
UploadSurvivesRemoval ==
    \A r \in Requests :
        (req[r].pc = "done" /\ WellFormed(r) /\ Len(Digest(r)) = ExpectedSHA1Length) =>
            resp[r].status = 202

----------------------------------------------------------------------------
(* Properties of concurrent uploads.                                       *)

\* Requests r1 and r2 were handled concurrently: neither was answered
\* before the other arrived.
Concurrent(r1, r2) == r1 # r2 /\ r1 \notin req[r2].after /\ r2 \notin req[r1].after

----------------------------------------------------------------------------
(* Properties of the locking of the walk counters.                         *)

\* C40: while the workers of a Run are running, every step that reads or
\* writes the walk counters does so holding the walker's mutex: the
\* workers' increments, and the producer's read of them before each send.
CountersUnderMutex ==
    [][(cfg.mode = "parallel" /\ \E e \in Executors : wk[e].pc # "exited") =>
          \A a \in StatsAccesses :
              (\/ a.site = "Processed++" /\ stats'.Processed # stats.Processed
               \/ a.site = "OK++" /\ stats'.OK # stats.OK
               \/ a.site = "walk status" /\ run'.met # run.met) => a.mu]_vars

====
